---------------------------- MODULE Spec2Model ----------------------------
(***************************************************************************)
(* Model of everest's reconciliation core (src/lib/src/lib.rs):            *)
(*   - build_patch: the three-way diff of four Envelopes snapshots         *)
(*     (previous/current x imap/maildir) into a Patch (Vec<Hunk>);         *)
(*   - TryFrom<imap::types::Fetches> for Envelopes: the normalisation of   *)
(*     fetched imap records into a snapshot.                               *)
(* imap is the remote side, maildir the local side.                        *)
(***************************************************************************)
EXTENDS Naturals, Sequences, FiniteSets, TLC

VARIABLES
    prev_imap_envelopes,  \* build_patch argument: cached remote snapshot
    next_imap_envelopes,  \* build_patch argument: current remote snapshot
    prev_mdir_envelopes,  \* build_patch argument: cached local snapshot
    next_mdir_envelopes,  \* build_patch argument: current local snapshot
    ids,                  \* ids the `for id in ids` loop has still to visit
    patch,                \* the Vec<Hunk> built so far
    fetches,              \* try_from argument: the fetched records
    pos,                  \* number of records try_from has consumed
    envelopes,            \* the Envelopes try_from has built so far
    result                \* try_from's return value, or "running"

vars == <<prev_imap_envelopes, next_imap_envelopes, prev_mdir_envelopes,
          next_mdir_envelopes, ids, patch, fetches, pos, envelopes, result>>

patchVars == <<prev_imap_envelopes, next_imap_envelopes, prev_mdir_envelopes,
               next_mdir_envelopes, ids, patch>>

fetchVars == <<fetches, pos, envelopes, result>>

-----------------------------------------------------------------------------
(* Bounds of the model.                                                    *)

MaxId == 2
NumInputFlags == 2
MaxFetches == 2
MaxUid == 2
MaxMessage == 2

Range(s) == {s[i] : i \in DOMAIN s}

-----------------------------------------------------------------------------
(* Data model.                                                             *)

\* enum Flag.
Flag == {"Draft", "Flagged", "Replied", "Seen", "Trashed"}

\* struct Envelope { id, flags }.
Envelope(id, flags) == [id |-> id, flags |-> flags]

\* HashMap::contains_key on an Envelopes map (a function from ids to Envelope).
contains_key(envs, id) == id \in DOMAIN envs

\* enum HunkKind.
AddMsg(id) == [kind |-> "AddMsg", id |-> id]
RemoveMsg(id) == [kind |-> "RemoveMsg", id |-> id]
AddFlag(id, flag) == [kind |-> "AddFlag", id |-> id, flag |-> flag]
RemoveFlag(id, flag) == [kind |-> "RemoveFlag", id |-> id, flag |-> flag]

\* enum Hunk.
Imap(k) == [side |-> "Imap", op |-> k]
Maildir(k) == [side |-> "Maildir", op |-> k]

\* `if cond { patch.push(hunk) }`: the hunks one guarded push appends.
PushIf(cond, hunk) == IF cond THEN <<hunk>> ELSE <<>>

-----------------------------------------------------------------------------
(* Inputs of build_patch.                                                  *)

\* Message ids, as the strings the normalisers produce from uids.
IDS == {ToString(n) : n \in 1..MaxId}

\* The flags the input envelopes draw from (the loop still walks all five).
InputFlagOrder == <<"Flagged", "Seen", "Replied", "Draft", "Trashed">>
InputFlags == {InputFlagOrder[i] : i \in {j \in 1..5 : j <= NumInputFlags}}

\* Every Envelopes value over IDS and InputFlags; each envelope is stored
\* under its own id, as both normalisers insert it.
Snapshots ==
    UNION { {[i \in D |-> Envelope(i, f[i])] : f \in [D -> SUBSET InputFlags]}
            : D \in SUBSET IDS }

-----------------------------------------------------------------------------
(* build_patch.                                                            *)

\* Faulty variant of FLAGS: the array in the opposite order.
FLAGS_Reversed == <<"Trashed", "Seen", "Replied", "Flagged", "Draft">>

\* The array the flag loop walks, in its order.
FLAGS == <<"Draft", "Flagged", "Replied", "Seen", "Trashed">>

\* The id set built before the loop: the union of the four key sets.
UnionIds(pi, ni, pm, nm) ==
    DOMAIN ni \cup DOMAIN pi \cup DOMAIN nm \cup DOMAIN pm

\* Faulty variant of FlagHunks: the `add imap flag` guard tests the maildir cache
\* without its negation.
FlagHunks_NoImapAdd(id, flag, imap_envelope, imap_cache_envelope, mdir_envelope, mdir_cache_envelope) ==
    PushIf(/\ flag \in imap_envelope.flags
           /\ flag \notin imap_cache_envelope.flags,
           Maildir(AddFlag(id, flag)))
    \o
    PushIf(/\ flag \notin imap_envelope.flags
           /\ flag \in imap_cache_envelope.flags,
           Maildir(RemoveFlag(id, flag)))
    \o
    PushIf(/\ flag \notin imap_envelope.flags
           /\ flag \notin imap_cache_envelope.flags
           /\ flag \in mdir_envelope.flags
           /\ flag \in mdir_cache_envelope.flags,
           Imap(AddFlag(id, flag)))
    \o
    PushIf(/\ flag \in imap_envelope.flags
           /\ flag \in imap_cache_envelope.flags
           /\ flag \notin mdir_envelope.flags
           /\ flag \in mdir_cache_envelope.flags,
           Imap(RemoveFlag(id, flag)))

\* Faulty variant of FlagHunks: the two imap guards look at the maildir side alone,
\* as the two maildir guards look at the imap side alone.
FlagHunks_LocalAlso(id, flag, imap_envelope, imap_cache_envelope, mdir_envelope, mdir_cache_envelope) ==
    PushIf(/\ flag \in imap_envelope.flags
           /\ flag \notin imap_cache_envelope.flags,
           Maildir(AddFlag(id, flag)))
    \o
    PushIf(/\ flag \notin imap_envelope.flags
           /\ flag \in imap_cache_envelope.flags,
           Maildir(RemoveFlag(id, flag)))
    \o
    PushIf(/\ flag \in mdir_envelope.flags
           /\ flag \notin mdir_cache_envelope.flags,
           Imap(AddFlag(id, flag)))
    \o
    PushIf(/\ flag \notin mdir_envelope.flags
           /\ flag \in mdir_cache_envelope.flags,
           Imap(RemoveFlag(id, flag)))

\* Body of the flag loop for one flag: the four guarded pushes.
FlagHunks(id, flag, imap_envelope, imap_cache_envelope, mdir_envelope, mdir_cache_envelope) ==
    \* flag in imap but not in imap cache: add maildir flag
    PushIf(/\ flag \in imap_envelope.flags
           /\ flag \notin imap_cache_envelope.flags,
           Maildir(AddFlag(id, flag)))
    \o
    \* flag not in imap but in imap cache: remove maildir flag
    PushIf(/\ flag \notin imap_envelope.flags
           /\ flag \in imap_cache_envelope.flags,
           Maildir(RemoveFlag(id, flag)))
    \o
    \* flag present only in maildir: add imap flag
    PushIf(/\ flag \notin imap_envelope.flags
           /\ flag \notin imap_cache_envelope.flags
           /\ flag \in mdir_envelope.flags
           /\ flag \notin mdir_cache_envelope.flags,
           Imap(AddFlag(id, flag)))
    \o
    \* flag everywhere except in maildir: remove imap flag
    PushIf(/\ flag \in imap_envelope.flags
           /\ flag \in imap_cache_envelope.flags
           /\ flag \notin mdir_envelope.flags
           /\ flag \in mdir_cache_envelope.flags,
           Imap(RemoveFlag(id, flag)))

\* The flag loop from position i of FLAGS on.
RECURSIVE FlagLoop(_, _, _, _, _, _)
FlagLoop(i, id, imap_envelope, imap_cache_envelope, mdir_envelope, mdir_cache_envelope) ==
    IF i > Len(FLAGS) THEN <<>>
    ELSE FlagHunks(id, FLAGS[i], imap_envelope, imap_cache_envelope,
                   mdir_envelope, mdir_cache_envelope)
         \o FlagLoop(i + 1, id, imap_envelope, imap_cache_envelope,
                     mdir_envelope, mdir_cache_envelope)

\* Faulty variant of MsgHunks: the `remove imap msg` guard does not test the current
\* maildir snapshot.
MsgHunks_LooseRemove(id, pi, ni, pm, nm) ==
    PushIf(/\ contains_key(ni, id)
           /\ ~contains_key(pi, id)
           /\ ~contains_key(nm, id)
           /\ ~contains_key(pm, id),
           Maildir(AddMsg(id)))
    \o
    PushIf(/\ ~contains_key(ni, id)
           /\ ~contains_key(pi, id)
           /\ contains_key(nm, id)
           /\ ~contains_key(pm, id),
           Imap(AddMsg(id)))
    \o
    PushIf(/\ ~contains_key(ni, id)
           /\ contains_key(pi, id)
           /\ contains_key(nm, id)
           /\ contains_key(pm, id),
           Maildir(RemoveMsg(id)))
    \o
    PushIf(/\ contains_key(ni, id)
           /\ contains_key(pi, id)
           /\ contains_key(pm, id),
           Imap(RemoveMsg(id)))

\* Faulty variant of MsgHunks: the `add maildir msg` guard does not test the imap
\* cache (a two-way instead of a three-way comparison).
MsgHunks_AddWithoutCache(id, pi, ni, pm, nm) ==
    PushIf(/\ contains_key(ni, id)
           /\ ~contains_key(nm, id)
           /\ ~contains_key(pm, id),
           Maildir(AddMsg(id)))
    \o
    PushIf(/\ ~contains_key(ni, id)
           /\ ~contains_key(pi, id)
           /\ contains_key(nm, id)
           /\ ~contains_key(pm, id),
           Imap(AddMsg(id)))
    \o
    PushIf(/\ ~contains_key(ni, id)
           /\ contains_key(pi, id)
           /\ contains_key(nm, id)
           /\ contains_key(pm, id),
           Maildir(RemoveMsg(id)))
    \o
    PushIf(/\ contains_key(ni, id)
           /\ contains_key(pi, id)
           /\ ~contains_key(nm, id)
           /\ contains_key(pm, id),
           Imap(RemoveMsg(id)))

\* Faulty variant of MsgHunks: `id everywhere except in imap` removes the message
\* on the imap side.
MsgHunks_WrongSide(id, pi, ni, pm, nm) ==
    PushIf(/\ contains_key(ni, id)
           /\ ~contains_key(pi, id)
           /\ ~contains_key(nm, id)
           /\ ~contains_key(pm, id),
           Maildir(AddMsg(id)))
    \o
    PushIf(/\ ~contains_key(ni, id)
           /\ ~contains_key(pi, id)
           /\ contains_key(nm, id)
           /\ ~contains_key(pm, id),
           Imap(AddMsg(id)))
    \o
    PushIf(/\ ~contains_key(ni, id)
           /\ contains_key(pi, id)
           /\ contains_key(nm, id)
           /\ contains_key(pm, id),
           Imap(RemoveMsg(id)))
    \o
    PushIf(/\ contains_key(ni, id)
           /\ contains_key(pi, id)
           /\ ~contains_key(nm, id)
           /\ contains_key(pm, id),
           Imap(RemoveMsg(id)))

\* The four message-level guards of the loop body.
MsgHunks(id, pi, ni, pm, nm) ==
    \* id present only in imap: add maildir msg
    PushIf(/\ contains_key(ni, id)
           /\ ~contains_key(pi, id)
           /\ ~contains_key(nm, id)
           /\ ~contains_key(pm, id),
           Maildir(AddMsg(id)))
    \o
    \* id present only in maildir: add imap msg
    PushIf(/\ ~contains_key(ni, id)
           /\ ~contains_key(pi, id)
           /\ contains_key(nm, id)
           /\ ~contains_key(pm, id),
           Imap(AddMsg(id)))
    \o
    \* id everywhere except in imap: remove maildir msg
    PushIf(/\ ~contains_key(ni, id)
           /\ contains_key(pi, id)
           /\ contains_key(nm, id)
           /\ contains_key(pm, id),
           Maildir(RemoveMsg(id)))
    \o
    \* id everywhere except in maildir: remove imap msg
    PushIf(/\ contains_key(ni, id)
           /\ contains_key(pi, id)
           /\ ~contains_key(nm, id)
           /\ contains_key(pm, id),
           Imap(RemoveMsg(id)))

\* The `id everywhere` branch of the loop body.
EverywhereHunks(id, pi, ni, pm, nm) ==
    IF /\ contains_key(ni, id)
       /\ contains_key(pi, id)
       /\ contains_key(nm, id)
       /\ contains_key(pm, id)
    THEN FlagLoop(1, id, ni[id], pi[id], nm[id], pm[id])
    ELSE <<>>

\* One iteration of `for id in ids`: everything it pushes, in order.
IdHunks(id, pi, ni, pm, nm) ==
    MsgHunks(id, pi, ni, pm, nm) \o EverywhereHunks(id, pi, ni, pm, nm)

\* The state at the head of the loop, for any four arguments.
InitPatch ==
    /\ prev_imap_envelopes \in Snapshots
    /\ next_imap_envelopes \in Snapshots
    /\ prev_mdir_envelopes \in Snapshots
    /\ next_mdir_envelopes \in Snapshots
    /\ ids = UnionIds(prev_imap_envelopes, next_imap_envelopes,
                      prev_mdir_envelopes, next_mdir_envelopes)
    /\ patch = <<>>

\* One iteration of the loop. ids is a HashSet: any remaining id may be next.
LoopBody ==
    /\ \E id \in ids :
          /\ patch' = patch \o IdHunks(id, prev_imap_envelopes, next_imap_envelopes,
                                       prev_mdir_envelopes, next_mdir_envelopes)
          /\ ids' = ids \ {id}
    /\ UNCHANGED <<prev_imap_envelopes, next_imap_envelopes,
                   prev_mdir_envelopes, next_mdir_envelopes>>
    /\ UNCHANGED fetchVars

\* The loop is over: patch is what build_patch returns.
Returned == ids = {}

-----------------------------------------------------------------------------
(* impl TryFrom<imap::types::Fetches> for Envelopes.                       *)

\* Option<u32> for fetch.uid.
None == <<>>
Some(n) == <<n>>

\* The flag lists the fetched records draw from: the five mapped imap flags
\* and two the match arm `_ => false` drops.
FlagLists ==
    { <<>>,
      <<"imap::Seen">>,
      <<"imap::Recent", "imap::Deleted">>,
      <<"imap::Answered", "imap::Draft", "imap::Custom", "imap::Flagged">> }

\* One fetched record: its sequence number, its optional uid, its flags.
Fetch ==
    [message : 1..MaxMessage, uid : {None} \cup {Some(n) : n \in 1..MaxUid}, flags : FlagLists]

\* Every Fetches value of at most MaxFetches records.
FetchesSet == UNION {[1..n -> Fetch] : n \in 0..MaxFetches}

\* The closure of the fold: one imap flag inserted into the Flags built so far.
InsertFlag(flags, flag) ==
    CASE flag = "imap::Seen"     -> flags \cup {"Seen"}
      [] flag = "imap::Answered" -> flags \cup {"Replied"}
      [] flag = "imap::Flagged"  -> flags \cup {"Flagged"}
      [] flag = "imap::Deleted"  -> flags \cup {"Trashed"}
      [] flag = "imap::Draft"    -> flags \cup {"Draft"}
      [] OTHER                   -> flags

\* fetch.flags().iter().fold(Flags::default(), ...), from position i on.
RECURSIVE FoldFlags(_, _, _)
FoldFlags(fs, i, acc) ==
    IF i > Len(fs) THEN acc ELSE FoldFlags(fs, i + 1, InsertFlag(acc, fs[i]))

\* Faulty variant of Insert: an id already stored keeps its first envelope.
InsertKeepFirst(envs, id, env) ==
    [k \in DOMAIN envs \cup {id} |-> IF k \in DOMAIN envs THEN envs[k] ELSE env]

\* HashMap::insert: the value stored under id is replaced.
Insert(envs, id, env) ==
    [k \in DOMAIN envs \cup {id} |-> IF k = id THEN env ELSE envs[k]]

\* Result<Envelopes, EverestError>.
Ok(envs) == [tag |-> "Ok", envelopes |-> envs]
MissingImapUidError(message) == [tag |-> "MissingImapUidError", message |-> message]

\* try_from has not returned yet.
Running == [tag |-> "Running"]

\* The state on entry of try_from, for any fetched records.
InitFetches ==
    /\ fetches \in FetchesSet
    /\ pos = 0
    /\ envelopes = <<>>
    /\ result = Running

\* One iteration of `for fetch in fetches.iter()`, with the `?` early return.
FetchStep ==
    /\ result = Running
    /\ pos < Len(fetches)
    /\ LET fetch == fetches[pos + 1] IN
         IF fetch.uid = None
         THEN /\ result' = MissingImapUidError(fetch.message)
              /\ UNCHANGED <<pos, envelopes>>
         ELSE LET id == ToString(fetch.uid[1])
                  flags == FoldFlags(fetch.flags, 1, {})
              IN /\ envelopes' = Insert(envelopes, id, Envelope(id, flags))
                 /\ pos' = pos + 1
                 /\ UNCHANGED result
    /\ UNCHANGED fetches
    /\ UNCHANGED patchVars

\* The loop is over: Ok(envelopes).
FetchReturn ==
    /\ result = Running
    /\ pos = Len(fetches)
    /\ result' = Ok(envelopes)
    /\ UNCHANGED <<fetches, pos, envelopes>>
    /\ UNCHANGED patchVars

-----------------------------------------------------------------------------
(* Specifications.                                                         *)

\* build_patch on any four snapshots (try_from idle).
Init ==
    /\ InitPatch
    /\ fetches = <<>>
    /\ pos = 0
    /\ envelopes = <<>>
    /\ result = Running

Next == LoopBody

Spec == Init /\ [][Next]_vars

\* try_from on any fetched records (build_patch idle, on empty snapshots).
InitNormalize ==
    /\ InitFetches
    /\ prev_imap_envelopes = <<>>
    /\ next_imap_envelopes = <<>>
    /\ prev_mdir_envelopes = <<>>
    /\ next_mdir_envelopes = <<>>
    /\ ids = {}
    /\ patch = <<>>

NextNormalize ==
    \/ FetchStep
    \/ FetchReturn

SpecNormalize == InitNormalize /\ [][NextNormalize]_vars

-----------------------------------------------------------------------------
(* Vocabulary of the properties.                                           *)

PatchSet == Range(patch)

IsMsgHunk(h) == h.op.kind \in {"AddMsg", "RemoveMsg"}
IsFlagHunk(h) == h.op.kind \in {"AddFlag", "RemoveFlag"}

\* The id is present in all four snapshots.
InAllFour(id) ==
    /\ id \in DOMAIN prev_imap_envelopes
    /\ id \in DOMAIN next_imap_envelopes
    /\ id \in DOMAIN prev_mdir_envelopes
    /\ id \in DOMAIN next_mdir_envelopes

\* Membership of a flag in one envelope of a snapshot.
Has(envs, id, flag) == flag \in envs[id].flags

RemoteGained(id, flag) ==
    Has(next_imap_envelopes, id, flag) /\ ~Has(prev_imap_envelopes, id, flag)
RemoteLost(id, flag) ==
    ~Has(next_imap_envelopes, id, flag) /\ Has(prev_imap_envelopes, id, flag)
RemoteAbsent(id, flag) ==
    ~Has(next_imap_envelopes, id, flag) /\ ~Has(prev_imap_envelopes, id, flag)
RemotePresent(id, flag) ==
    Has(next_imap_envelopes, id, flag) /\ Has(prev_imap_envelopes, id, flag)
LocalGained(id, flag) ==
    Has(next_mdir_envelopes, id, flag) /\ ~Has(prev_mdir_envelopes, id, flag)
LocalLost(id, flag) ==
    ~Has(next_mdir_envelopes, id, flag) /\ Has(prev_mdir_envelopes, id, flag)

\* Positions of the patch that hold a flag hunk for (id, flag).
FlagHunkPositions(id, flag) ==
    {i \in DOMAIN patch :
        IsFlagHunk(patch[i]) /\ patch[i].op.id = id /\ patch[i].op.flag = flag}

\* Positions of the patch that hold a message-level hunk for id.
MsgHunkPositions(id) ==
    {i \in DOMAIN patch : IsMsgHunk(patch[i]) /\ patch[i].op.id = id}

\* Positions of the patch that hold any hunk for id.
HunkPositions(id) == {i \in DOMAIN patch : patch[i].op.id = id}

\* The current snapshot of the side a hunk addresses.
Current(side) ==
    IF side = "Imap" THEN next_imap_envelopes ELSE next_mdir_envelopes

\* The hunk changes nothing on the side it addresses.
NoOp(h) ==
    LET envs == Current(h.side)
        id == h.op.id
    IN CASE h.op.kind = "AddMsg"     -> id \in DOMAIN envs
         [] h.op.kind = "RemoveMsg"  -> id \notin DOMAIN envs
         [] h.op.kind = "AddFlag"    -> id \in DOMAIN envs => h.op.flag \in envs[id].flags
         [] h.op.kind = "RemoveFlag" -> id \in DOMAIN envs => h.op.flag \notin envs[id].flags

-----------------------------------------------------------------------------
(* C1: local flag changes reach the remote when the remote is unchanged.   *)

\* C1 as claimed: for every id in all four snapshots and every flag whose
\* remote membership is unchanged, a flag gained locally yields
\* Imap(AddFlag(id, flag)) and a flag lost locally yields
\* Imap(RemoveFlag(id, flag)).
C1_AsClaimed ==
    Returned =>
        \A id \in IDS, flag \in Flag :
            (InAllFour(id) /\ (RemoteAbsent(id, flag) \/ RemotePresent(id, flag))) =>
                /\ LocalGained(id, flag) => Imap(AddFlag(id, flag)) \in PatchSet
                /\ LocalLost(id, flag) => Imap(RemoveFlag(id, flag)) \in PatchSet

\* C1 as amended: for every id in all four snapshots, a flag absent from both
\* remote envelopes and gained locally yields Imap(AddFlag(id, flag)); a flag
\* present in both remote envelopes and lost locally yields
\* Imap(RemoveFlag(id, flag)); a flag gained locally that the remote has
\* throughout, or lost locally that the remote never had, yields no hunk.
C1_LocalChangeReachesRemote ==
    Returned =>
        \A id \in IDS, flag \in Flag :
            InAllFour(id) =>
                /\ (RemoteAbsent(id, flag) /\ LocalGained(id, flag)) =>
                       Imap(AddFlag(id, flag)) \in PatchSet
                /\ (RemotePresent(id, flag) /\ LocalLost(id, flag)) =>
                       Imap(RemoveFlag(id, flag)) \in PatchSet
                /\ \/ RemotePresent(id, flag) /\ LocalGained(id, flag)
                   \/ RemoteAbsent(id, flag) /\ LocalLost(id, flag)
                   => FlagHunkPositions(id, flag) = {}

\* A returned patch in which a locally gained flag was pushed to the remote.
C1_Witness ==
    /\ Returned
    /\ \E id \in IDS, flag \in Flag :
          /\ InAllFour(id)
          /\ RemoteAbsent(id, flag)
          /\ LocalGained(id, flag)
          /\ Imap(AddFlag(id, flag)) \in PatchSet

-----------------------------------------------------------------------------
(* C2: remote wins.                                                        *)

\* C2: for every id in all four snapshots and every flag whose remote
\* membership changed, the patch holds exactly one flag hunk for (id, flag);
\* it targets Maildir, AddFlag if the remote gained the flag and RemoveFlag
\* if it lost it; so no Imap flag hunk exists for the pair, whatever the
\* local side did.
C2_RemoteWins ==
    Returned =>
        \A id \in IDS, flag \in Flag :
            (InAllFour(id) /\ (RemoteGained(id, flag) \/ RemoteLost(id, flag))) =>
                /\ Cardinality(FlagHunkPositions(id, flag)) = 1
                /\ \A i \in FlagHunkPositions(id, flag) :
                      patch[i] = IF RemoteGained(id, flag)
                                 THEN Maildir(AddFlag(id, flag))
                                 ELSE Maildir(RemoveFlag(id, flag))

\* A returned patch for a flag both sides changed, in opposite directions.
C2_Witness ==
    /\ Returned
    /\ \E id \in IDS, flag \in Flag :
          /\ InAllFour(id)
          /\ RemoteGained(id, flag)
          /\ LocalLost(id, flag)
          /\ Maildir(AddFlag(id, flag)) \in PatchSet

-----------------------------------------------------------------------------
(* C3: exclusivity.                                                        *)

\* C3: for any id the patch holds at most one message-level hunk, and if it
\* holds one it holds no flag hunk for that id.
C3_Exclusivity ==
    Returned =>
        \A id \in IDS :
            /\ Cardinality(MsgHunkPositions(id)) <= 1
            /\ MsgHunkPositions(id) # {} => HunkPositions(id) = MsgHunkPositions(id)

\* A returned patch with a message-level hunk for one id and flag hunks for
\* another.
C3_Witness ==
    /\ Returned
    /\ \E a \in IDS, b \in IDS :
          /\ MsgHunkPositions(a) # {}
          /\ HunkPositions(b) # {}
          /\ MsgHunkPositions(b) = {}

-----------------------------------------------------------------------------
(* C4: message-level classification.                                       *)

\* Presence of an id in <<current imap, previous imap, current maildir,
\* previous maildir>>.
Presence(id) ==
    << id \in DOMAIN next_imap_envelopes, id \in DOMAIN prev_imap_envelopes,
       id \in DOMAIN next_mdir_envelopes, id \in DOMAIN prev_mdir_envelopes >>

\* C4: for every id of the union, Maildir(AddMsg) iff the id is only in the
\* current remote snapshot, Imap(AddMsg) iff only in the current local one,
\* Maildir(RemoveMsg) iff everywhere but the current remote one,
\* Imap(RemoveMsg) iff everywhere but the current local one; any other
\* presence except `in all four` yields no hunk at all for the id.
C4_Classification ==
    Returned =>
        \A id \in UnionIds(prev_imap_envelopes, next_imap_envelopes,
                           prev_mdir_envelopes, next_mdir_envelopes) :
            /\ Maildir(AddMsg(id)) \in PatchSet
                   <=> Presence(id) = <<TRUE, FALSE, FALSE, FALSE>>
            /\ Imap(AddMsg(id)) \in PatchSet
                   <=> Presence(id) = <<FALSE, FALSE, TRUE, FALSE>>
            /\ Maildir(RemoveMsg(id)) \in PatchSet
                   <=> Presence(id) = <<FALSE, TRUE, TRUE, TRUE>>
            /\ Imap(RemoveMsg(id)) \in PatchSet
                   <=> Presence(id) = <<TRUE, TRUE, FALSE, TRUE>>
            /\ Presence(id) \notin { <<TRUE, FALSE, FALSE, FALSE>>,
                                     <<FALSE, FALSE, TRUE, FALSE>>,
                                     <<FALSE, TRUE, TRUE, TRUE>>,
                                     <<TRUE, TRUE, FALSE, TRUE>>,
                                     <<TRUE, TRUE, TRUE, TRUE>> }
                   => HunkPositions(id) = {}

\* A returned patch that removes one id locally while another id, known to
\* the remote alone since the baseline, is left without a hunk.
C4_Witness ==
    /\ Returned
    /\ \E a \in IDS, b \in IDS :
          /\ Maildir(RemoveMsg(a)) \in PatchSet
          /\ Presence(b) = <<TRUE, TRUE, FALSE, FALSE>>
          /\ HunkPositions(b) = {}

-----------------------------------------------------------------------------
(* C5: applying the patch.                                                 *)

\* One hunk's operation applied to a snapshot: AddMsg creates the id (with
\* no flags), RemoveMsg deletes it, AddFlag/RemoveFlag inserts/removes the
\* flag of an envelope that exists.
ApplyOp(envs, op) ==
    CASE op.kind = "AddMsg" ->
            IF op.id \in DOMAIN envs THEN envs
            ELSE [k \in DOMAIN envs \cup {op.id} |->
                     IF k = op.id THEN Envelope(op.id, {}) ELSE envs[k]]
      [] op.kind = "RemoveMsg" ->
            [k \in DOMAIN envs \ {op.id} |-> envs[k]]
      [] op.kind = "AddFlag" ->
            IF op.id \in DOMAIN envs
            THEN [envs EXCEPT ![op.id].flags = @ \cup {op.flag}] ELSE envs
      [] op.kind = "RemoveFlag" ->
            IF op.id \in DOMAIN envs
            THEN [envs EXCEPT ![op.id].flags = @ \ {op.flag}] ELSE envs

\* The hunks of p from position i on that address `side`, applied in order.
RECURSIVE ApplyPatch(_, _, _, _)
ApplyPatch(envs, side, p, i) ==
    IF i > Len(p) THEN envs
    ELSE ApplyPatch(IF p[i].side = side THEN ApplyOp(envs, p[i].op) ELSE envs,
                    side, p, i + 1)

\* Both sides after the patch: the same ids, and the same flags for every id
\* that was in all four snapshots.
Agreement ==
    LET imap == ApplyPatch(next_imap_envelopes, "Imap", patch, 1)
        mdir == ApplyPatch(next_mdir_envelopes, "Maildir", patch, 1)
    IN /\ DOMAIN imap = DOMAIN mdir
       /\ \A id \in IDS : InAllFour(id) => imap[id].flags = mdir[id].flags

\* C5 as claimed: for any four snapshots, once every hunk of the patch is
\* applied to the current snapshot of its side, both sides hold the same ids
\* and every id that was in all four snapshots has the same flags on both.
C5_AsClaimed == Returned => Agreement

\* C5 as amended: the same, for four snapshots whose two previous snapshots
\* are equal (the baseline the sides were last synchronised to).
C5_AgreementFromCommonBaseline ==
    (Returned /\ prev_imap_envelopes = prev_mdir_envelopes) => Agreement

\* A returned patch, from a common baseline, that holds a message-level and
\* a flag hunk and reconciles two current snapshots that differ.
C5_Witness ==
    /\ Returned
    /\ prev_imap_envelopes = prev_mdir_envelopes
    /\ next_imap_envelopes # next_mdir_envelopes
    /\ \E i \in DOMAIN patch : IsMsgHunk(patch[i])
    /\ \E i \in DOMAIN patch : IsFlagHunk(patch[i])

-----------------------------------------------------------------------------
(* C6: minimality.                                                         *)

\* C6 as claimed: no hunk of the patch is a no-op on the side it addresses.
C6_AsClaimed == Returned => \A h \in PatchSet : ~NoOp(h)

\* C6 as amended: no message-level hunk and no Imap flag hunk is a no-op on
\* the side it addresses; a Maildir flag hunk mirrors a change of the remote
\* envelope (AddFlag: the remote gained the flag, RemoveFlag: it lost it),
\* whether or not the local envelope already agrees.
C6_EffectiveHunks ==
    Returned =>
        \A h \in PatchSet :
            /\ (IsMsgHunk(h) \/ h.side = "Imap") => ~NoOp(h)
            /\ (IsFlagHunk(h) /\ h.side = "Maildir") =>
                   IF h.op.kind = "AddFlag"
                   THEN RemoteGained(h.op.id, h.op.flag)
                   ELSE RemoteLost(h.op.id, h.op.flag)

\* A returned patch with a message-level hunk, an Imap flag hunk and a
\* Maildir flag hunk.
C6_Witness ==
    /\ Returned
    /\ \E h \in PatchSet : IsMsgHunk(h)
    /\ \E h \in PatchSet : IsFlagHunk(h) /\ h.side = "Imap"
    /\ \E h \in PatchSet : IsFlagHunk(h) /\ h.side = "Maildir"

-----------------------------------------------------------------------------
(* C7: no-op baseline.                                                     *)

\* C7: when each side's previous snapshot equals its current one (the two
\* sides may differ from each other), the patch is empty.
C7_NoOpBaseline ==
    (/\ Returned
     /\ prev_imap_envelopes = next_imap_envelopes
     /\ prev_mdir_envelopes = next_mdir_envelopes) => patch = <<>>

\* A returned patch for unchanged sides that differ from each other, in
\* their ids and in the flags of an id they share.
C7_Witness ==
    /\ Returned
    /\ prev_imap_envelopes = next_imap_envelopes
    /\ prev_mdir_envelopes = next_mdir_envelopes
    /\ DOMAIN next_imap_envelopes # DOMAIN next_mdir_envelopes
    /\ \E id \in IDS :
          /\ InAllFour(id)
          /\ next_imap_envelopes[id].flags # next_mdir_envelopes[id].flags

-----------------------------------------------------------------------------
(* C8: symmetry.                                                           *)

\* Imap and Maildir exchanged in a hunk.
SwapSide(h) == [h EXCEPT !.side = IF @ = "Imap" THEN "Maildir" ELSE "Imap"]

\* The hunks of build_patch called with the remote and the local arguments
\* exchanged, with Imap and Maildir exchanged in each.
SwappedCall ==
    { SwapSide(h) :
        h \in UNION { Range(IdHunks(id, prev_mdir_envelopes, next_mdir_envelopes,
                                    prev_imap_envelopes, next_imap_envelopes))
                      : id \in UnionIds(prev_mdir_envelopes, next_mdir_envelopes,
                                        prev_imap_envelopes, next_imap_envelopes) } }

\* No (id, flag) pair changed on both sides.
NoFlagConflict ==
    \A id \in IDS, flag \in Flag :
        InAllFour(id) =>
            ~ /\ RemoteGained(id, flag) \/ RemoteLost(id, flag)
              /\ LocalGained(id, flag) \/ LocalLost(id, flag)

\* C8 as claimed: when no (id, flag) pair changed on both sides, the call
\* with the sides exchanged, relabelled, yields the same set of hunks.
C8_AsClaimed == (Returned /\ NoFlagConflict) => SwappedCall = PatchSet

\* C8 as amended: it yields the same set of hunks once the hunks that are
\* no-ops on the side they address are left out of both sets.
C8_SymmetryOfEffectiveHunks ==
    (Returned /\ NoFlagConflict) =>
        {h \in SwappedCall : ~NoOp(h)} = {h \in PatchSet : ~NoOp(h)}

\* A returned patch, without a conflict, with a message-level hunk and a
\* flag hunk on each side.
C8_Witness ==
    /\ Returned
    /\ NoFlagConflict
    /\ \E h \in PatchSet : IsMsgHunk(h)
    /\ \E h \in PatchSet : IsFlagHunk(h) /\ h.side = "Imap" /\ ~NoOp(h)
    /\ \E h \in PatchSet : IsFlagHunk(h) /\ h.side = "Maildir" /\ ~NoOp(h)

-----------------------------------------------------------------------------
(* C9: per-id flag order.                                                  *)

\* Position of a flag in the enumeration Draft, Flagged, Replied, Seen,
\* Trashed.
FlagRank(flag) ==
    CASE flag = "Draft"   -> 1
      [] flag = "Flagged" -> 2
      [] flag = "Replied" -> 3
      [] flag = "Seen"    -> 4
      [] flag = "Trashed" -> 5

\* C9: of two flag hunks with the same id, the one whose flag comes earlier
\* in the enumeration is earlier in the patch, and no hunk of another id
\* lies between two hunks of one id.
C9_FlagOrder ==
    \A i \in DOMAIN patch, j \in DOMAIN patch :
        (i < j /\ patch[i].op.id = patch[j].op.id) =>
            /\ (IsFlagHunk(patch[i]) /\ IsFlagHunk(patch[j])) =>
                   FlagRank(patch[i].op.flag) < FlagRank(patch[j].op.flag)
            /\ \A k \in DOMAIN patch :
                   (i < k /\ k < j) => patch[k].op.id = patch[i].op.id

\* A returned patch with two flag hunks for each of two ids.
C9_Witness ==
    /\ Returned
    /\ \E a \in IDS, b \in IDS :
          /\ a # b
          /\ Cardinality(HunkPositions(a)) >= 2
          /\ Cardinality(HunkPositions(b)) >= 2

-----------------------------------------------------------------------------
(* C10: remote normalisation is all-or-nothing.                            *)

\* The canonical flags of a list of imap flags, by the fixed table.
CanonicalFlags(fs) ==
    {"Seen" : f \in Range(fs) \cap {"imap::Seen"}}
    \cup {"Replied" : f \in Range(fs) \cap {"imap::Answered"}}
    \cup {"Flagged" : f \in Range(fs) \cap {"imap::Flagged"}}
    \cup {"Trashed" : f \in Range(fs) \cap {"imap::Deleted"}}
    \cup {"Draft" : f \in Range(fs) \cap {"imap::Draft"}}

\* Positions of the records that have no uid.
WithoutUid == {i \in DOMAIN fetches : fetches[i].uid = None}

\* Positions of the records whose stringified uid is k.
WithUid(k) ==
    {i \in DOMAIN fetches \ WithoutUid : ToString(fetches[i].uid[1]) = k}

SetMin(S) == CHOOSE x \in S : \A y \in S : x <= y
SetMax(S) == CHOOSE x \in S : \A y \in S : x >= y

\* C10: once try_from has returned: if some record has no uid, the result is
\* MissingImapUidError with the sequence number of the first such record,
\* and no snapshot; otherwise it is a snapshot whose keys are exactly the
\* stringified uids, each mapped to the envelope of the last record with
\* that uid.
C10_AllOrNothing ==
    result # Running =>
        IF WithoutUid # {}
        THEN result = MissingImapUidError(fetches[SetMin(WithoutUid)].message)
        ELSE /\ result.tag = "Ok"
             /\ DOMAIN result.envelopes =
                    {ToString(fetches[i].uid[1]) : i \in DOMAIN fetches}
             /\ \A k \in DOMAIN result.envelopes :
                    result.envelopes[k] =
                        Envelope(k, CanonicalFlags(fetches[SetMax(WithUid(k))].flags))

\* try_from returned the error after it had already converted a record.
C10_Witness ==
    /\ result.tag = "MissingImapUidError"
    /\ pos >= 1
    /\ DOMAIN envelopes # {}
    /\ result.message = fetches[pos + 1].message

====
